---- MODULE Spec2Model ----
\* Model of the custom-asmr spatial audio player: the useSpatialAudio hook (the
\* audio graph manager), the useTabAudioCapture hook (the capture controller),
\* the CustomAsmrPlayer handlers that sequence them, and the AudioControls
\* enabling rules.  Numbers are fixed point: Unit stands for 1.0.
EXTENDS Integers, FiniteSets, Sequences, TLC

\* ---------------------------------------------------------------- bounds
\* How many AudioContexts the host may hand out in one run.
MaxContexts == 2
\* How many MediaStreams the permission prompt may hand out in one run.
MaxStreams == 2

\* ------------------------------------------------------------- constants
\* Fixed point scale: 1.0 in the source is Unit here (the slider step is 1/Unit).
Unit == 100
\* updateSourcePosition(panner, position, scale = 5)
PositionScale == 5
\* useSpatialAudio: const { config = {}, initialGain = 1 } = options
initialGain == 100

CtxIds == 1..MaxContexts
StreamIds == 1..MaxStreams
\* 0 stands for null where a stream or context id is expected.
NoId == 0

SpatialAudioStatus == {"idle", "initializing", "ready", "active", "error"}
CaptureStatus == {"idle", "requesting", "capturing", "error"}
CaptureError == {"not-supported", "permission-denied", "no-audio", "unknown"}
NoError == "null"

\* Values a caller may hand to setGain, in and out of [0, 1].
GainInputs == {0 - 50, 50, 170}
\* Values the slider (min 0, max 1) can emit.
SliderValues == {0, 50, Unit}
\* Pad coordinates the pad may report.
PadInputs == {0 - Unit, 0, Unit}
\* Pad points a caller may hand to setPosition: top left and bottom right.
PadPoints == {<<0 - Unit, Unit>>, <<Unit, 0 - Unit>>}
\* Heights a caller may hand to setPosition.
Heights == {0, 30}
\* The rectangles getBoundingClientRect() may report for the pad, in pixels.
\* Their sides are powers of two, so that every division below is exact, as it
\* is in the source's floating point.
PadRects ==
    {[left |-> 0, top |-> 0, width |-> 4, height |-> 4],
     [left |-> 3, top |-> 1, width |-> 4, height |-> 2],
     [left |-> 1, top |-> 3, width |-> 2, height |-> 4]}

VARIABLES
    spatial,    \* useSpatialAudio: status, position, gain, nodesRef, streamRef
    capture,    \* useTabAudioCapture: status, error, stream, streamRef, isSupported
    contexts,   \* the host's AudioContexts: "none", "suspended", "running", "closed"
    streams,    \* the host's MediaStreams: tracks "none", "live", "stopped", "ended"
    mounted,    \* whether the owning component is mounted
    pending,    \* the awaits in flight: initialize, startCapture, handleStart
    env,        \* the environment: real capability, whether the check effect ran
    pad,        \* PositionPad: its rectangle, marker position, isDragging, last pointer
    lastOp      \* the handler or continuation that ran last

vars == <<spatial, capture, contexts, streams, mounted, pending, env, pad, lastOp>>

\* ------------------------------------------------------------ the world
\* Every operation is a function from the world before it to the world after it,
\* so that handlers can run several hook operations in sequence.
World ==
    [spatial |-> spatial, capture |-> capture, contexts |-> contexts,
     streams |-> streams, mounted |-> mounted, pending |-> pending, pad |-> pad]

Commit(w) ==
    /\ spatial' = w.spatial
    /\ capture' = w.capture
    /\ contexts' = w.contexts
    /\ streams' = w.streams
    /\ mounted' = w.mounted
    /\ pending' = w.pending
    /\ pad' = w.pad

\* nodesRef.current = null
NoNodes ==
    [held |-> FALSE, context |-> NoId, source |-> NoId,
     panner |-> [id |-> NoId, x |-> 0, y |-> 0, z |-> 0],
     gain |-> [id |-> NoId, target |-> 0],
     wired |-> {}, feeding |-> {}]

\* A React state setter: ignored once the component is unmounted.
setStatus(w, v) ==
    IF w.mounted THEN [w EXCEPT !.spatial.status = v] ELSE w

setPositionState(w, p) ==
    IF w.mounted THEN [w EXCEPT !.spatial.position = p] ELSE w

setGainState(w, v) ==
    IF w.mounted THEN [w EXCEPT !.spatial.gain = v] ELSE w

\* ------------------------------------------------- spatial-audio-engine
OpenStates == {"suspended", "running"}

OpenContexts(w) == {c \in CtxIds : w.contexts[c] \in OpenStates}

FreshContexts(w) == {c \in CtxIds : w.contexts[c] = "none"}

\* new AudioContext(): the next context the host hands out.
NextContext(w) == CHOOSE c \in FreshContexts(w) : \A d \in FreshContexts(w) : c <= d

\* createPannerNode: omnidirectional cone, initial position (0, 0, 1).
createPannerNode(c) == [id |-> c, x |-> 0, y |-> 0, z |-> Unit]

\* createGainNode: gain.gain.value = initialGain.
createGainNode(c, g) == [id |-> c, target |-> g]

\* connectAudioGraph: Source -> Panner -> Gain -> Destination.
connectAudioGraph(n) ==
    IF n.source = NoId THEN n
    ELSE [n EXCEPT !.wired = {"source->panner", "panner->gain", "gain->destination"},
                   !.feeding = n.feeding \cup {n.source}]

\* disconnectAudioGraph: every node drops its outgoing connections.  feeding is
\* the set of streams whose source node is connected into the panner.
disconnectAudioGraph(n) ==
    LET a == IF n.source # NoId THEN n.wired \ {"source->panner"} ELSE n.wired
        f == IF n.source # NoId THEN n.feeding \ {n.source} ELSE n.feeding
    IN [n EXCEPT !.wired = (a \ {"panner->gain"}) \ {"gain->destination"},
                 !.feeding = f]

Max(a, b) == IF a >= b THEN a ELSE b

Min(a, b) == IF a <= b THEN a ELSE b

\* updateGain: Math.max(0, Math.min(1, value)) is the node's new target.
updateGain(g, value) == [g EXCEPT !.target = Max(0, Min(Unit, value))]

\* updateSourcePosition that forgets the scale.
updateSourcePositionUnscaled(p, pos) ==
    [p EXCEPT !.x = pos.x, !.y = pos.y, !.z = pos.z]

\* updateSourcePosition: the scaled position is the panner's new target.
updateSourcePosition(p, pos) ==
    [p EXCEPT !.x = pos.x * PositionScale,
              !.y = pos.y * PositionScale,
              !.z = pos.z * PositionScale]

\* padToPosition3D with the pad's Y copied to Z unflipped.
padToPosition3DNoFlip(padX, padY, height) == [x |-> padX, y |-> height, z |-> padY]

\* padToPosition3D(padX, padY, height = 0)
DefaultHeight == 0

padToPosition3D(padX, padY, height) == [x |-> padX, y |-> height, z |-> 0 - padY]

\* closeAudioContext
closeAudioContext(w, c) == [w EXCEPT !.contexts[c] = "closed"]

\* ------------------------------------------------------ useSpatialAudio
\* buildNodes with the nodes stored before the constructor that throws has run.
buildNodesStoredEarly(w, c, nodeOutcome) ==
    LET w1 == [w EXCEPT !.spatial.nodesRef =
                   [held |-> TRUE, context |-> c, source |-> NoId,
                    panner |-> createPannerNode(c),
                    gain |-> createGainNode(c, initialGain),
                    wired |-> {}, feeding |-> {}]]
    IN IF nodeOutcome = "throw"
       THEN [setStatus(w1, "error") EXCEPT !.pending.initReturn = "false"]
       ELSE [setStatus(w1, "ready") EXCEPT !.pending.initReturn = "true"]

\* initialize(), lines 82-103: the nodes are built on context c; a node
\* constructor that throws lands in the catch.
buildNodes(w, c, nodeOutcome) ==
    IF nodeOutcome = "throw"
    THEN [setStatus(w, "error") EXCEPT !.pending.initReturn = "false"]
    ELSE [setStatus([w EXCEPT !.spatial.nodesRef =
                        [held |-> TRUE, context |-> c, source |-> NoId,
                         panner |-> createPannerNode(c),
                         gain |-> createGainNode(c, initialGain),
                         wired |-> {}, feeding |-> {}]],
                    "ready")
          EXCEPT !.pending.initReturn = "true"]

\* initialize() without its already-initialized guard.
initializeAlways(w, ctxOutcome, nodeOutcome) ==
    IF FreshContexts(w) = {}
    THEN [w EXCEPT !.pending.initReturn = "true"]
    ELSE
        LET w1 == setStatus(w, "initializing")
            c == NextContext(w)
        IN CASE ctxOutcome = "throw" ->
                    [setStatus(w1, "error") EXCEPT !.pending.initReturn = "false"]
             [] ctxOutcome = "running" ->
                    buildNodes([w1 EXCEPT !.contexts[c] = "running"], c, nodeOutcome)
             [] OTHER ->
                    [w1 EXCEPT !.contexts[c] = "suspended",
                               !.pending.init = "resume",
                               !.pending.initCtx = c,
                               !.pending.initReturn = "none"]

\* initialize() up to its return or to the await on context.resume().
\* ctxOutcome: new AudioContext() throws, or yields a running or a suspended context.
initialize(w, ctxOutcome, nodeOutcome) ==
    IF w.spatial.nodesRef.held
    THEN [w EXCEPT !.pending.initReturn = "true"]
    ELSE
        LET w1 == setStatus(w, "initializing")
            c == NextContext(w)
        IN CASE ctxOutcome = "throw" ->
                    [setStatus(w1, "error") EXCEPT !.pending.initReturn = "false"]
             [] ctxOutcome = "running" ->
                    buildNodes([w1 EXCEPT !.contexts[c] = "running"], c, nodeOutcome)
             [] OTHER ->
                    [w1 EXCEPT !.contexts[c] = "suspended",
                               !.pending.init = "resume",
                               !.pending.initCtx = c,
                               !.pending.initReturn = "none"]

\* initialize() from the point where context.resume() settles.
initializeResumed(w, resumeOutcome, nodeOutcome) ==
    LET c == w.pending.initCtx
        w1 == [w EXCEPT !.pending.init = "idle", !.pending.initCtx = NoId]
    IN IF resumeOutcome = "rejected"
       THEN [setStatus(w1, "error") EXCEPT !.pending.initReturn = "false"]
       ELSE buildNodes([w1 EXCEPT !.contexts[c] = "running"], c, nodeOutcome)

\* createMediaStreamSource throws when the stream carries no audio track.
SourceThrows(w, s) == ~w.streams[s].audio

\* Whether connectStream(stream) ends by throwing to its caller: it has no
\* try/catch around createMediaStreamSource.
connectStreamThrows(w, s) == w.spatial.nodesRef.held /\ SourceThrows(w, s)

\* connectStream(stream) without its not-initialized guard.
connectStreamUnguarded(w, s) ==
    LET n == w.spatial.nodesRef
        n1 == IF n.source # NoId THEN disconnectAudioGraph(n) ELSE n
    IN IF SourceThrows(w, s)
       THEN [w EXCEPT !.spatial.nodesRef = n1]
       ELSE setStatus([w EXCEPT !.spatial.nodesRef =
                            connectAudioGraph([n1 EXCEPT !.source = s]),
                          !.spatial.streamRef = s],
                      "active")

\* connectStream(stream) that attaches the new source over the old one.
connectStreamKeepsOld(w, s) ==
    LET n == w.spatial.nodesRef IN
    IF ~n.held THEN w
    ELSE IF SourceThrows(w, s) THEN w
    ELSE setStatus([w EXCEPT !.spatial.nodesRef =
                         connectAudioGraph([n EXCEPT !.source = s]),
                       !.spatial.streamRef = s],
                   "active")

\* connectStream(stream).  When createMediaStreamSource throws, the call ends
\* after the old source was disconnected and before anything else is written.
connectStream(w, s) ==
    LET n == w.spatial.nodesRef IN
    IF ~n.held THEN w
    ELSE
        LET n1 == IF n.source # NoId THEN disconnectAudioGraph(n) ELSE n
        IN IF SourceThrows(w, s)
           THEN [w EXCEPT !.spatial.nodesRef = n1]
           ELSE setStatus([w EXCEPT !.spatial.nodesRef =
                                connectAudioGraph([n1 EXCEPT !.source = s]),
                              !.spatial.streamRef = s],
                          "active")

\* disconnectStream() that also closes the context it leaves behind.
disconnectStreamClosing(w) ==
    LET n == w.spatial.nodesRef IN
    IF ~n.held \/ n.source = NoId THEN w
    ELSE setStatus([closeAudioContext(w, n.context) EXCEPT
                        !.spatial.nodesRef =
                            [disconnectAudioGraph(n) EXCEPT !.source = NoId],
                        !.spatial.streamRef = NoId],
                   "ready")

\* disconnectStream() that forgets setStatus("ready").
disconnectStreamKeepsStatus(w) ==
    LET n == w.spatial.nodesRef IN
    IF ~n.held \/ n.source = NoId THEN w
    ELSE [w EXCEPT !.spatial.nodesRef =
                       [disconnectAudioGraph(n) EXCEPT !.source = NoId],
                   !.spatial.streamRef = NoId]

\* disconnectStream()
disconnectStream(w) ==
    LET n == w.spatial.nodesRef IN
    IF ~n.held \/ n.source = NoId THEN w
    ELSE setStatus([w EXCEPT !.spatial.nodesRef =
                        [disconnectAudioGraph(n) EXCEPT !.source = NoId],
                      !.spatial.streamRef = NoId],
                   "ready")

\* setPosition that reports the position even when there is no panner.
setPositionUnguarded(w, x, y, height) ==
    LET n == w.spatial.nodesRef
        pos == padToPosition3D(x, y, height)
    IN IF ~n.held THEN setPositionState(w, pos)
       ELSE setPositionState([w EXCEPT !.spatial.nodesRef.panner =
                                  updateSourcePosition(n.panner, pos)], pos)

\* setPosition(x, y, height)
setPosition(w, x, y, height) ==
    LET n == w.spatial.nodesRef IN
    IF ~n.held THEN w
    ELSE LET pos == padToPosition3D(x, y, height)
         IN setPositionState([w EXCEPT !.spatial.nodesRef.panner =
                                  updateSourcePosition(n.panner, pos)], pos)

\* setGain(value)
setGain(w, value) ==
    LET n == w.spatial.nodesRef IN
    IF ~n.held THEN w
    ELSE setGainState([w EXCEPT !.spatial.nodesRef.gain = updateGain(n.gain, value)],
                      value)

\* cleanup() that forgets setStatus("idle").
cleanupKeepsStatus(w) ==
    LET n == w.spatial.nodesRef IN
    IF ~n.held THEN w
    ELSE [closeAudioContext(w, n.context) EXCEPT !.spatial.nodesRef = NoNodes,
                                                 !.spatial.streamRef = NoId]

\* cleanup() that forgets nodesRef.current = null.
cleanupKeepsNodes(w) ==
    LET n == w.spatial.nodesRef IN
    IF ~n.held THEN w
    ELSE setStatus([closeAudioContext(w, n.context) EXCEPT
                        !.spatial.nodesRef.source = NoId,
                        !.spatial.nodesRef.wired = {},
                        !.spatial.nodesRef.feeding = {},
                        !.spatial.streamRef = NoId],
                   "idle")

\* cleanup()
cleanup(w) ==
    LET n == w.spatial.nodesRef IN
    IF ~n.held THEN w
    ELSE LET w1 == closeAudioContext(w, n.context)
         IN setStatus([w1 EXCEPT !.spatial.nodesRef = NoNodes,
                                 !.spatial.streamRef = NoId],
                      "idle")

\* The contexts a cleanup() call closes: the one in nodesRef, if any.
cleanupCloses(w) ==
    IF w.spatial.nodesRef.held THEN {w.spatial.nodesRef.context} ELSE {}

\* The unmount effect: if (nodesRef.current) cleanup().
unmountEffect(w) ==
    [(IF w.spatial.nodesRef.held THEN cleanup(w) ELSE w) EXCEPT !.mounted = FALSE]

\* --------------------------------------------------- useTabAudioCapture
setCaptureStatus(w, v) ==
    IF w.mounted THEN [w EXCEPT !.capture.status = v] ELSE w

setError(w, v) ==
    IF w.mounted THEN [w EXCEPT !.capture.error = v] ELSE w

setStream(w, v) ==
    IF w.mounted THEN [w EXCEPT !.capture.stream = v] ELSE w

setIsSupported(w, v) ==
    IF w.mounted THEN [w EXCEPT !.capture.isSupported = v] ELSE w

FreshStreams(w) == {s \in StreamIds : w.streams[s].tracks = "none"}

\* The stream a granted getDisplayMedia() call resolves with.
NextStream(w) == CHOOSE s \in FreshStreams(w) : \A t \in FreshStreams(w) : s <= t

\* mediaStream.getTracks().forEach((track) => track.stop()): no event is fired.
stopTracks(w, s) ==
    IF w.streams[s].tracks = "live" THEN [w EXCEPT !.streams[s].tracks = "stopped"] ELSE w

\* What getDisplayMedia() can settle with.
PromptOutcomes ==
    {"granted", "granted-without-audio", "NotAllowedError", "PermissionDeniedError",
     "NotFoundError", "AbortError", "not-an-Error"}

\* A catch block that takes every rejection for a denial.
classifyAllDenied(outcome) == "permission-denied"

\* The catch block's classification of a rejection.
classify(outcome) ==
    IF outcome \in {"NotAllowedError", "PermissionDeniedError"} THEN "permission-denied"
    ELSE IF outcome = "NotFoundError" THEN "no-audio"
    ELSE "unknown"

\* startCapture() that opens the prompt even when a stream is already held.
startCaptureAlwaysPrompts(w) ==
    IF ~w.capture.isSupported
    THEN [setError(setCaptureStatus(w, "error"), "not-supported")
          EXCEPT !.pending.capReturn = NoId]
    ELSE [setError(setCaptureStatus(w, "requesting"), NoError)
          EXCEPT !.pending.cap = "prompt", !.pending.capReturn = NoId]

\* startCapture() up to its return or to the await on getDisplayMedia().
startCapture(w) ==
    IF ~w.capture.isSupported
    THEN [setError(setCaptureStatus(w, "error"), "not-supported")
          EXCEPT !.pending.capReturn = NoId]
    ELSE IF w.capture.streamRef # NoId
    THEN [w EXCEPT !.pending.capReturn = w.capture.streamRef]
    ELSE [setError(setCaptureStatus(w, "requesting"), NoError)
          EXCEPT !.pending.cap = "prompt", !.pending.capReturn = NoId]

\* startCapture() from the point where getDisplayMedia() settles.
startCapturePrompted(w, outcome) ==
    LET w1 == [w EXCEPT !.pending.cap = "idle"]
        s == NextStream(w)
    IN CASE outcome = "granted" ->
                LET w2 == [w1 EXCEPT !.streams[s] = [tracks |-> "live", audio |-> TRUE],
                                     !.capture.streamRef = s]
                IN [setCaptureStatus(setStream(w2, s), "capturing")
                    EXCEPT !.pending.capReturn = s]
         [] outcome = "granted-without-audio" ->
                LET w2 == [w1 EXCEPT !.streams[s] = [tracks |-> "stopped", audio |-> FALSE]]
                IN [setError(setCaptureStatus(w2, "error"), "no-audio")
                    EXCEPT !.pending.capReturn = NoId]
         [] OTHER ->
                [setCaptureStatus(setError(w1, classify(outcome)), "error")
                 EXCEPT !.pending.capReturn = NoId]

\* An 'ended' listener that reports the end of the stream as an error.
trackEndedAsError(w, s) ==
    LET w1 == [w EXCEPT !.streams[s].tracks = "ended"]
    IN [setError(setStream(setCaptureStatus(w1, "error"), NoId), "unknown")
        EXCEPT !.capture.streamRef = NoId]

\* The 'ended' listener startCapture() puts on the first audio track.  Sharing
\* that is revoked ends every track of the stream together.
trackEnded(w, s) ==
    LET w1 == [w EXCEPT !.streams[s].tracks = "ended"]
    IN [setStream(setCaptureStatus(w1, "idle"), NoId) EXCEPT !.capture.streamRef = NoId]

\* stopCapture() that forgets setError(null).
stopCaptureKeepsError(w) ==
    LET w1 == IF w.capture.streamRef # NoId
              THEN [stopTracks(w, w.capture.streamRef) EXCEPT !.capture.streamRef = NoId]
              ELSE w
    IN setCaptureStatus(setStream(w1, NoId), "idle")

\* stopCapture() that forgets streamRef.current = null.
stopCaptureKeepsRef(w) ==
    LET w1 == IF w.capture.streamRef # NoId
              THEN stopTracks(w, w.capture.streamRef)
              ELSE w
    IN setError(setCaptureStatus(setStream(w1, NoId), "idle"), NoError)

\* The streams whose tracks a stopCapture() call stops: the one in streamRef, if any.
stopCaptureStops(w) ==
    IF w.capture.streamRef # NoId THEN {w.capture.streamRef} ELSE {}

\* stopCapture()
stopCapture(w) ==
    LET w1 == IF w.capture.streamRef # NoId
              THEN [stopTracks(w, w.capture.streamRef) EXCEPT !.capture.streamRef = NoId]
              ELSE w
    IN setError(setCaptureStatus(setStream(w1, NoId), "idle"), NoError)

\* A capability check that always finds the capture API.
capabilityEffectAlwaysTrue(w, supported) == setIsSupported(w, TRUE)

\* The mount effect: the capability check.
capabilityEffect(w, supported) == setIsSupported(w, supported)

\* getErrorMessage: every classification has a text of its own; the labels
\* stand for the Japanese sentences of the source.
getErrorMessage(error) ==
    CASE error = "not-supported" -> "use-chrome-or-edge"
      [] error = "permission-denied" -> "allow-tab-sharing"
      [] error = "no-audio" -> "share-tab-audio"
      [] OTHER -> "unexpected-error"

\* errorMessage: error ? getErrorMessage(error) : null, handed to AudioControls
\* as captureError, the only message it shows.
NoMessage == "null"

errorMessage == IF capture.error # NoError THEN getErrorMessage(capture.error) ELSE NoMessage

\* ------------------------------------------------------- AudioControls
\* getStatusText: the labels stand for the Japanese strings of the source.
getStatusText(captureStatus, spatialStatus) ==
    IF captureStatus = "error" THEN "error"
    ELSE IF captureStatus = "requesting" THEN "waiting-for-permission"
    ELSE IF spatialStatus = "initializing" THEN "initializing"
    ELSE IF spatialStatus = "active" THEN "3d-audio-active"
    ELSE IF spatialStatus = "ready" THEN "ready"
    ELSE "standby"

isActive == spatial.status = "active"

\* isLoading that forgets the engine's own initialization.
isLoadingCaptureOnly == capture.status = "requesting"

isLoading == capture.status = "requesting" \/ spatial.status = "initializing"

\* canStart that stays off once the engine has failed.
canStartUnlessError ==
    capture.isSupported /\ ~isActive /\ ~isLoading /\ spatial.status # "error"

canStart == capture.isSupported /\ ~isActive /\ ~isLoading

canStop == isActive

StatusText == getStatusText(capture.status, spatial.status)

\* ---------------------------------------------------- CustomAsmrPlayer
\* handleStart after startCapture() returned.
afterCapture(w) ==
    LET w1 == [w EXCEPT !.pending.start = "idle"]
    IN IF w.pending.capReturn = NoId THEN w1
       ELSE connectStream(w1, w.pending.capReturn)

\* handleStart that goes on whatever initialize() returned.
afterInitializeIgnoresResult(w) ==
    LET w1 == startCapture(w)
    IN IF w1.pending.cap = "prompt"
       THEN [w1 EXCEPT !.pending.start = "capture"]
       ELSE afterCapture(w1)

\* handleStart after initialize() returned.
afterInitialize(w) ==
    IF w.pending.initReturn # "true"
    THEN [w EXCEPT !.pending.start = "idle"]
    ELSE LET w1 == startCapture(w)
         IN IF w1.pending.cap = "prompt"
            THEN [w1 EXCEPT !.pending.start = "capture"]
            ELSE afterCapture(w1)

\* handleStart up to its return or to its first await that suspends.  An await
\* on a promise that is already settled resumes in a microtask, before any
\* other event is handled, so only context.resume() and getDisplayMedia()
\* split the handler into steps.
handleStart(w, ctxOutcome, nodeOutcome) ==
    LET w1 == initialize(w, ctxOutcome, nodeOutcome)
    IN IF w1.pending.init = "resume"
       THEN [w1 EXCEPT !.pending.start = "initialize"]
       ELSE afterInitialize(w1)

\* handleStop as a pause: the engine is left initialized.
handleStopPause(w) == stopCapture(disconnectStream(w))

\* handleStop
handleStop(w) == cleanup(stopCapture(disconnectStream(w)))

\* handlePositionChange
handlePositionChange(w, x, y) == setPosition(w, x, y, 0)

\* --------------------------------------------------------- PositionPad
\* pixelToNormalized without the clamp to [-1, 1].
pixelToNormalizedUnclamped(pixelX, pixelY, width, height) ==
    [x |-> ((pixelX * Unit) \div width) * 2 - Unit,
     y |-> 0 - (((pixelY * Unit) \div height) * 2 - Unit)]

\* pixelToNormalized with Y left pointing down.
pixelToNormalizedNoFlip(pixelX, pixelY, width, height) ==
    LET x == ((pixelX * Unit) \div width) * 2 - Unit
        y == ((pixelY * Unit) \div height) * 2 - Unit
    IN [x |-> Max(0 - Unit, Min(Unit, x)),
        y |-> Max(0 - Unit, Min(Unit, y))]

\* pixelToNormalized: centre origin, Y up, clamped to [-1, 1].
pixelToNormalized(pixelX, pixelY, width, height) ==
    LET x == ((pixelX * Unit) \div width) * 2 - Unit
        y == 0 - (((pixelY * Unit) \div height) * 2 - Unit)
    IN [x |-> Max(0 - Unit, Min(Unit, x)),
        y |-> Max(0 - Unit, Min(Unit, y))]

\* normalizedToPercent with top growing with Y.
normalizedToPercentNoFlip(pos) ==
    [left |-> (((pos.x + Unit) \div 2) * 100) \div Unit,
     top |-> (((pos.y + Unit) \div 2) * 100) \div Unit]

\* normalizedToPercent: the marker's CSS left and top, as numbers of percent.
normalizedToPercent(pos) ==
    [left |-> (((pos.x + Unit) \div 2) * 100) \div Unit,
     top |-> (((0 - pos.y + Unit) \div 2) * 100) \div Unit]

\* PositionPad's state as first rendered: initialPosition = { x: 0, y: 0.5 }.
\* pointer is the client position of the last pointer event that moved the marker.
PadAt(rect) ==
    [rect |-> rect,
     position |-> [x |-> 0, y |-> Unit \div 2],
     isDragging |-> FALSE,
     pointer |-> [on |-> FALSE, x |-> 0, y |-> 0]]

\* const markerStyle = normalizedToPercent(position)
markerStyle == normalizedToPercent(pad.position)

\* disabled={spatialStatus !== "active"}
padDisabled(w) == w.spatial.status # "active"

\* updatePosition(clientX, clientY)
updatePosition(w, clientX, clientY) ==
    LET rect == w.pad.rect
        x == clientX - rect.left
        y == clientY - rect.top
        newPos == pixelToNormalized(x, y, rect.width, rect.height)
    IN IF ~w.mounted THEN w
       ELSE handlePositionChange(
                [w EXCEPT !.pad.position = newPos,
                          !.pad.pointer = [on |-> TRUE, x |-> clientX, y |-> clientY]],
                newPos.x, newPos.y)

\* handlePointerDown
handlePointerDown(w, clientX, clientY) ==
    IF padDisabled(w) THEN w
    ELSE updatePosition([w EXCEPT !.pad.isDragging = TRUE], clientX, clientY)

\* handlePointerMove
handlePointerMove(w, clientX, clientY) ==
    IF ~w.pad.isDragging \/ padDisabled(w) THEN w
    ELSE updatePosition(w, clientX, clientY)

\* handlePointerUp, also the pad's onPointerLeave.
handlePointerUp(w) == [w EXCEPT !.pad.isDragging = FALSE]

\* ------------------------------------------------------- initial state
NoPending ==
    [init |-> "idle", initCtx |-> NoId, initReturn |-> "none",
     cap |-> "idle", capReturn |-> NoId, start |-> "idle"]

InitHooks ==
    /\ spatial = [status |-> "idle",
                  position |-> [x |-> 0, y |-> 0, z |-> Unit],
                  gain |-> initialGain,
                  nodesRef |-> NoNodes,
                  streamRef |-> NoId]
    /\ capture = [status |-> "idle", error |-> NoError, stream |-> NoId,
                  streamRef |-> NoId, isSupported |-> TRUE]
    /\ contexts = [c \in CtxIds |-> "none"]
    /\ mounted = TRUE
    /\ pending = NoPending
    /\ env \in [supported : BOOLEAN, checked : {FALSE}]
    /\ lastOp = "mount"

\* The page as it is first rendered: the host has handed out no stream yet.
\* The pad's rectangle in the page layout the player and the engine runs use.
PageRect == [left |-> 0, top |-> 0, width |-> 4, height |-> 4]

Init ==
    /\ InitHooks
    /\ streams = [s \in StreamIds |-> [tracks |-> "none", audio |-> FALSE]]
    /\ pad = PadAt(PageRect)

CtxOutcomes == {"throw", "running", "suspended"}

NodeOutcomes == {"ok", "throw"}

ResumeOutcomes == {"resolved", "rejected"}

\* A grant needs a stream the host has not handed out yet.
Grantable(outcome) ==
    outcome \in {"granted", "granted-without-audio"} => FreshStreams(World) # {}

\* A new context needs one the host has not handed out yet.
Creatable == spatial.nodesRef.held \/ FreshContexts(World) # {}

\* Effects run before the first event is handled.
UserCanAct == mounted /\ env.checked

\* ------------------------------------------------ steps common to both
CapabilityCheck ==
    /\ mounted
    /\ ~env.checked
    /\ Commit(capabilityEffect(World, env.supported))
    /\ env' = [env EXCEPT !.checked = TRUE]
    /\ lastOp' = "capabilityEffect"

TrackEnded ==
    \E s \in StreamIds :
        /\ streams[s].tracks = "live"
        /\ streams[s].audio
        /\ Commit(trackEnded(World, s))
        /\ lastOp' = "trackEnded"
        /\ UNCHANGED env

\* --------------------------------------------------- the player's steps
HandleStart ==
    /\ UserCanAct
    /\ canStart
    /\ pending.start = "idle"
    /\ Creatable
    /\ \E co \in CtxOutcomes, no \in NodeOutcomes : Commit(handleStart(World, co, no))
    /\ lastOp' = "handleStart"
    /\ UNCHANGED env

HandleStartResumed ==
    /\ pending.start = "initialize"
    /\ pending.init = "resume"
    /\ \E ro \in ResumeOutcomes, no \in NodeOutcomes :
           Commit(afterInitialize(initializeResumed(World, ro, no)))
    /\ lastOp' = "handleStart.resumed"
    /\ UNCHANGED env

HandleStartPrompted ==
    /\ pending.start = "capture"
    /\ pending.cap = "prompt"
    /\ \E po \in PromptOutcomes :
           /\ Grantable(po)
           /\ Commit(afterCapture(startCapturePrompted(World, po)))
    /\ lastOp' = "handleStart.prompted"
    /\ UNCHANGED env

HandleStop ==
    /\ UserCanAct
    /\ canStop
    /\ Commit(handleStop(World))
    /\ lastOp' = "handleStop"
    /\ UNCHANGED env

\* The slider is disabled unless the engine is active.
GainChange ==
    /\ UserCanAct
    /\ isActive
    /\ \E v \in SliderValues : Commit(setGain(World, v))
    /\ lastOp' = "setGain"
    /\ UNCHANGED env

\* The pad is disabled unless the engine is active.  Here the pad is seen
\* through the coordinates it reports; SpecPad follows its pointer handlers.
PositionChange ==
    /\ UserCanAct
    /\ isActive
    /\ \E x \in PadInputs, y \in PadInputs : Commit(handlePositionChange(World, x, y))
    /\ lastOp' = "handlePositionChange"
    /\ UNCHANGED env

Unmount ==
    /\ mounted
    /\ Commit(unmountEffect(World))
    /\ lastOp' = "unmount"
    /\ UNCHANGED env

Next ==
    \/ CapabilityCheck
    \/ HandleStart
    \/ HandleStartResumed
    \/ HandleStartPrompted
    \/ HandleStop
    \/ GainChange
    \/ PositionChange
    \/ TrackEnded
    \/ Unmount

Spec == Init /\ [][Next]_vars

\* ------------------------------------------ the engine called directly
\* A client that calls useSpatialAudio's operations in any order, with at most
\* one initialize() awaiting at a time, and that holds MediaStreams of its own,
\* with or without an audio track.
ClientStreams ==
    {[tracks |-> "live", audio |-> TRUE], [tracks |-> "live", audio |-> FALSE]}

InitEngine ==
    /\ InitHooks
    /\ streams \in [StreamIds -> ClientStreams]
    /\ pad = PadAt(PageRect)

Initialize ==
    /\ UserCanAct
    /\ pending.init = "idle"
    /\ Creatable
    /\ \E co \in CtxOutcomes, no \in NodeOutcomes : Commit(initialize(World, co, no))
    /\ lastOp' = "initialize"
    /\ UNCHANGED env

InitializeResumed ==
    /\ pending.start = "idle"
    /\ pending.init = "resume"
    /\ \E ro \in ResumeOutcomes, no \in NodeOutcomes :
           Commit(initializeResumed(World, ro, no))
    /\ lastOp' = "initialize.resumed"
    /\ UNCHANGED env

ConnectStream ==
    /\ UserCanAct
    /\ \E s \in StreamIds :
           /\ Commit(connectStream(World, s))
           /\ lastOp' = IF connectStreamThrows(World, s)
                        THEN "connectStream.threw"
                        ELSE "connectStream"
    /\ UNCHANGED env

DisconnectStream ==
    /\ UserCanAct
    /\ Commit(disconnectStream(World))
    /\ lastOp' = "disconnectStream"
    /\ UNCHANGED env

SetPosition ==
    /\ UserCanAct
    /\ \E p \in PadPoints, h \in Heights : Commit(setPosition(World, p[1], p[2], h))
    /\ lastOp' = "setPosition"
    /\ UNCHANGED env

SetGain ==
    /\ UserCanAct
    /\ \E v \in GainInputs : Commit(setGain(World, v))
    /\ lastOp' = "setGain"
    /\ UNCHANGED env

Cleanup ==
    /\ UserCanAct
    /\ Commit(cleanup(World))
    /\ lastOp' = "cleanup"
    /\ UNCHANGED env

NextEngine ==
    \/ CapabilityCheck
    \/ Initialize
    \/ InitializeResumed
    \/ ConnectStream
    \/ DisconnectStream
    \/ SetPosition
    \/ SetGain
    \/ Cleanup

SpecEngine == InitEngine /\ [][NextEngine]_vars

\* ------------------------------------------------ the pad in the player
\* The player with its pad: start, stop and the pad's pointer events, on a page
\* whose layout gives the pad one of PadRects.
InitPad ==
    /\ InitHooks
    /\ streams = [s \in StreamIds |-> [tracks |-> "none", audio |-> FALSE]]
    /\ pad \in {PadAt(r) : r \in PadRects}

\* Client positions a pointer event may carry: on the pad and one pixel around it.
PointerXs == (pad.rect.left - 1)..(pad.rect.left + pad.rect.width + 1)

PointerYs == (pad.rect.top - 1)..(pad.rect.top + pad.rect.height + 1)

PointerDown ==
    /\ UserCanAct
    /\ \E cx \in PointerXs, cy \in PointerYs : Commit(handlePointerDown(World, cx, cy))
    /\ lastOp' = "pointerDown"
    /\ UNCHANGED env

PointerMove ==
    /\ UserCanAct
    /\ \E cx \in PointerXs, cy \in PointerYs : Commit(handlePointerMove(World, cx, cy))
    /\ lastOp' = "pointerMove"
    /\ UNCHANGED env

PointerUp ==
    /\ UserCanAct
    /\ Commit(handlePointerUp(World))
    /\ lastOp' = "pointerUp"
    /\ UNCHANGED env

NextPad ==
    \/ CapabilityCheck
    \/ HandleStart
    \/ HandleStartResumed
    \/ HandleStartPrompted
    \/ HandleStop
    \/ PointerDown
    \/ PointerMove
    \/ PointerUp

SpecPad == InitPad /\ [][NextPad]_vars

\* ------------------------------- the capture controller called directly
\* A client that calls useTabAudioCapture's operations in any order, with at
\* most one startCapture() awaiting the prompt at a time.
StartCapture ==
    /\ UserCanAct
    /\ pending.cap = "idle"
    /\ Commit(startCapture(World))
    /\ lastOp' = "startCapture"
    /\ UNCHANGED env

StartCapturePrompted ==
    /\ pending.start = "idle"
    /\ pending.cap = "prompt"
    /\ \E po \in PromptOutcomes :
           /\ Grantable(po)
           /\ Commit(startCapturePrompted(World, po))
    /\ lastOp' = "startCapture.prompted"
    /\ UNCHANGED env

StopCapture ==
    /\ UserCanAct
    /\ Commit(stopCapture(World))
    /\ lastOp' = "stopCapture"
    /\ UNCHANGED env

NextCapture ==
    \/ CapabilityCheck
    \/ StartCapture
    \/ StartCapturePrompted
    \/ StopCapture
    \/ TrackEnded

SpecCapture == Init /\ [][NextCapture]_vars

\* ================================================================ claims
SoundStreams == {s \in StreamIds : streams[s].audio}

LiveStreams == {s \in StreamIds : streams[s].tracks = "live"}

InitializeReturned ==
    /\ lastOp \in {"initialize", "initialize.resumed"}
    /\ pending.init = "idle"

\* C1: when the track of the connected stream ends on its own while the engine is
\* active, the step leaves the display idle-equivalent: the spatial status is no
\* longer 'active', the status text is not the active one, start is enabled.
C1_EndedStreamReturnsToIdle ==
    [][\A s \in StreamIds :
          (/\ mounted
           /\ isActive
           /\ spatial.nodesRef.source = s
           /\ streams[s].tracks = "live"
           /\ streams'[s].tracks = "ended")
          => (/\ ~isActive'
              /\ StatusText' # "3d-audio-active"
              /\ canStart')]_vars

\* The state right after a successful initialize() on an engine with no source.
C2_ScenarioAReady ==
    /\ InitializeReturned
    /\ pending.initReturn = "true"
    /\ spatial.nodesRef.source = NoId

\* C2: scenario A.  Right after a successful initialize() on an engine with no
\* source the status is 'ready'; connectStream of a stream with audio then gives
\* 'active'; disconnectStream then gives 'ready' with the same context open and
\* the same panner and gain nodes; cleanup then gives 'idle', the context closed
\* and no nodes held.
C2_ScenarioA ==
    C2_ScenarioAReady =>
        /\ spatial.status = "ready"
        /\ spatial.nodesRef.held
        /\ \A s \in SoundStreams :
              LET n == spatial.nodesRef
                  w1 == connectStream(World, s)
                  w2 == disconnectStream(w1)
                  w3 == cleanup(w2)
              IN /\ w1.spatial.status = "active"
                 /\ w1.spatial.nodesRef.source = s
                 /\ w2.spatial.status = "ready"
                 /\ w2.spatial.nodesRef.held
                 /\ w2.spatial.nodesRef.source = NoId
                 /\ w2.spatial.nodesRef.context = n.context
                 /\ w2.contexts[n.context] = "running"
                 /\ w2.spatial.nodesRef.panner = n.panner
                 /\ w2.spatial.nodesRef.gain = n.gain
                 /\ w3.spatial.status = "idle"
                 /\ w3.contexts[n.context] = "closed"
                 /\ w3.spatial.nodesRef = NoNodes

C2_Witness ==
    /\ C2_ScenarioAReady
    /\ lastOp = "initialize.resumed"
    /\ SoundStreams # {}

\* C3: after cleanup(), whatever the state it was called in, the status is
\* 'idle', no source is attached and no processing context is open.
C3_CleanupReachesIdle ==
    lastOp = "cleanup" =>
        /\ spatial.status = "idle"
        /\ spatial.nodesRef.source = NoId
        /\ OpenContexts(World) = {}

\* C4: once the component is unmounted and no initialize() is still suspended,
\* the engine holds no open processing context (a context that a failed
\* initialize() left behind is C10's case, not this one).
C4_NoContextAfterUnmount ==
    (~mounted /\ pending.init = "idle" /\ spatial.nodesRef.held) =>
        contexts[spatial.nodesRef.context] \notin OpenStates

\* C5: the gain the engine stores and reports lies in [0, 1].
C5_ReportedGainInRange == 0 <= spatial.gain /\ spatial.gain <= Unit

\* The state right after a start sequence whose capture step yielded no stream.
C6_CaptureDenied ==
    /\ mounted
    /\ lastOp = "handleStart.prompted"
    /\ pending.capReturn = NoId

\* C6: scenario B.  When the capture step of a start sequence yields no stream,
\* the sequence is over with the engine 'ready', no source attached and its
\* context open, and start is enabled; a second start from there leaves the
\* contexts and the engine as they are (initialize() sets no status and creates
\* nothing) and ends suspended on a new capture request.
C6_ScenarioB ==
    C6_CaptureDenied =>
        /\ pending.start = "idle"
        /\ spatial.status = "ready"
        /\ spatial.nodesRef.held
        /\ spatial.nodesRef.source = NoId
        /\ contexts[spatial.nodesRef.context] = "running"
        /\ canStart
        /\ \A co \in CtxOutcomes, no \in NodeOutcomes :
              LET wi == initialize(World, co, no)
                  w1 == handleStart(World, co, no)
              IN /\ wi.spatial = spatial
                 /\ wi.contexts = contexts
                 /\ wi.pending.initReturn = "true"
                 /\ w1.spatial = spatial
                 /\ w1.contexts = contexts
                 /\ w1.capture.status = "requesting"
                 /\ w1.pending.cap = "prompt"
                 /\ w1.pending.start = "capture"

C6_Witness ==
    /\ C6_CaptureDenied
    /\ capture.error = "permission-denied"
    /\ FreshContexts(World) # {}

\* C7: after the stop action the system is torn down: both statuses are 'idle',
\* the engine holds no nodes (no source, no context), its context is closed and
\* no track of any stream handed out is live.
C7_StopTearsDown ==
    lastOp = "handleStop" =>
        /\ spatial.status = "idle"
        /\ capture.status = "idle"
        /\ spatial.nodesRef = NoNodes
        /\ spatial.streamRef = NoId
        /\ capture.streamRef = NoId
        /\ LiveStreams = {}

C7_Witness ==
    /\ lastOp = "handleStop"
    /\ \E s \in StreamIds : streams[s].tracks = "stopped" /\ streams[s].audio
    /\ \E c \in CtxIds : contexts[c] = "closed"

\* C8: while a start sequence is in flight (suspended on context resume or on
\* the permission prompt) and the component is mounted, the start control and
\* the stop control are both disabled.
C8_OneSequenceInFlight ==
    (mounted /\ pending.start # "idle") => (~canStart /\ ~canStop)

C8_Witness ==
    /\ mounted
    /\ pending.start = "capture"
    /\ pending.cap = "prompt"
    /\ \E c \in CtxIds : contexts[c] = "closed"

\* C9: when initialize() returns failure, the status is 'error' and the engine
\* holds no nodes.
C9_InitializeFailure ==
    (InitializeReturned /\ pending.initReturn = "false") =>
        /\ spatial.status = "error"
        /\ spatial.nodesRef = NoNodes

C9_Witness ==
    /\ InitializeReturned
    /\ pending.initReturn = "false"
    /\ \E c \in CtxIds : contexts[c] = "running"

\* C10: when initialize() returns failure, no processing context is open.
C10_NoContextAfterFailure ==
    (InitializeReturned /\ pending.initReturn = "false") => OpenContexts(World) = {}

\* The chain connectAudioGraph builds.
FullChain == {"source->panner", "panner->gain", "gain->destination"}

\* C11: no connectStream call ends by throwing to its caller, and a source whose
\* creation failed leaves the engine consistent: 'active' only with the attached
\* source wired through to the output.
C11_ConnectFailureContained ==
    /\ lastOp # "connectStream.threw"
    /\ (spatial.status = "active" =>
            /\ spatial.nodesRef.wired = FullChain
            /\ spatial.nodesRef.feeding = {spatial.nodesRef.source})

\* C12: whenever the capture status or the spatial status is 'error', the status
\* text is the error one and a message is shown.
C12_ErrorIsExplained ==
    (mounted /\ (capture.status = "error" \/ spatial.status = "error")) =>
        /\ StatusText = "error"
        /\ errorMessage # NoMessage

\* C13: the status is 'active' exactly when the engine holds nodes with a source
\* attached; no source is attached right after disconnectStream or cleanup, and
\* only a connectStream call attaches one.
C13_ActiveIffSource ==
    /\ [](/\ (spatial.status = "active") <=>
                 (spatial.nodesRef.held /\ spatial.nodesRef.source # NoId)
          /\ (lastOp \in {"disconnectStream", "cleanup"} =>
                 spatial.nodesRef.source = NoId))
    /\ [][spatial'.nodesRef.source \notin {NoId, spatial.nodesRef.source} =>
             lastOp' = "connectStream"]_vars

C13_Witness ==
    /\ spatial.status = "active"
    /\ spatial.nodesRef.source # NoId
    /\ \E c \in CtxIds : contexts[c] = "closed"

\* C14: a connectStream call made while the engine holds no nodes changes
\* nothing (status, nodes, stored stream) and does not throw.
C14_ConnectBeforeInitialize ==
    [][(/\ lastOp' \in {"connectStream", "connectStream.threw"}
        /\ ~spatial.nodesRef.held)
       => (/\ UNCHANGED <<spatial, capture, contexts, streams, pending>>
           /\ lastOp' = "connectStream")]_vars

C14_Witness ==
    /\ lastOp = "connectStream"
    /\ ~spatial.nodesRef.held
    /\ spatial.status = "initializing"

\* C15: at most one source feeds the panner; connectStream of a stream with audio
\* while a source is attached leaves exactly the new source attached and
\* feeding, the status 'active', and does not throw.
C15_OneSource ==
    /\ Cardinality(spatial.nodesRef.feeding) <= 1
    /\ (spatial.nodesRef.held /\ spatial.nodesRef.source # NoId) =>
           \A s \in SoundStreams :
               LET w1 == connectStream(World, s)
               IN /\ ~connectStreamThrows(World, s)
                  /\ w1.spatial.nodesRef.source = s
                  /\ w1.spatial.nodesRef.feeding = {s}
                  /\ w1.spatial.streamRef = s
                  /\ w1.spatial.status = "active"

C15_Witness ==
    /\ lastOp = "connectStream"
    /\ spatial.nodesRef.source # NoId
    /\ \E s \in SoundStreams : s # spatial.nodesRef.source

\* C16: a disconnectStream call in state 'active' discards the source and gives
\* 'ready' with the context still open and the panner and gain nodes as they
\* were; a call with no source attached changes nothing.
C16_Disconnect ==
    [][lastOp' = "disconnectStream" =>
          /\ spatial.status = "active" =>
                /\ spatial'.status = "ready"
                /\ spatial'.nodesRef.held
                /\ spatial'.nodesRef.source = NoId
                /\ spatial'.nodesRef.context = spatial.nodesRef.context
                /\ contexts' = contexts
                /\ contexts[spatial.nodesRef.context] \in OpenStates
                /\ spatial'.nodesRef.panner = spatial.nodesRef.panner
                /\ spatial'.nodesRef.gain = spatial.nodesRef.gain
          /\ spatial.nodesRef.source = NoId =>
                UNCHANGED <<spatial, capture, contexts, streams, pending>>]_vars

C16_Witness ==
    /\ lastOp = "disconnectStream"
    /\ spatial.status = "ready"
    /\ spatial.nodesRef.held
    /\ spatial.nodesRef.panner.x # 0

\* C17: initialize() called in status ready or active returns success, creates no
\* context or nodes, and leaves status, source and parameter values as they were.
C17_InitializeIdempotent ==
    spatial.status \in {"ready", "active"} =>
        \A co \in CtxOutcomes, no \in NodeOutcomes :
            LET w1 == initialize(World, co, no)
            IN /\ w1.pending.initReturn = "true"
               /\ w1.pending.init = pending.init
               /\ w1.spatial = spatial
               /\ w1.contexts = contexts
               /\ w1.streams = streams

C17_Witness ==
    /\ lastOp = "initialize"
    /\ spatial.status = "active"
    /\ pending.initReturn = "true"

\* C18: a second cleanup() right after a first one changes nothing and closes no
\* context, and cleanup() in status idle changes nothing and closes nothing.
C18_CleanupIdempotent ==
    LET w1 == cleanup(World)
    IN /\ cleanup(w1) = w1
       /\ cleanupCloses(w1) = {}
       /\ spatial.status = "idle" => (w1 = World /\ cleanupCloses(World) = {})

C18_Witness ==
    /\ lastOp = "cleanup"
    /\ spatial.status = "idle"
    /\ \E c \in CtxIds : contexts[c] = "closed"

\* C19: the permission prompt is open only after initialize() returned success;
\* a start sequence whose initialize() failed ends there with spatial status
\* 'error' and the capture untouched; a source is attached only by the step in
\* which the capture returned that stream.
C19_StartOrder ==
    /\ [](pending.cap = "prompt" => pending.initReturn = "true")
    /\ [][(/\ lastOp' \in {"handleStart", "handleStart.resumed"}
           /\ pending'.initReturn = "false")
          => (/\ capture' = capture
              /\ streams' = streams
              /\ pending'.cap = pending.cap
              /\ pending'.start = "idle"
              /\ spatial'.nodesRef.source = spatial.nodesRef.source
              /\ (mounted => spatial'.status = "error"))]_vars
    /\ [][spatial'.nodesRef.source \notin {NoId, spatial.nodesRef.source}
          => (/\ lastOp' = "handleStart.prompted"
              /\ pending'.capReturn = spatial'.nodesRef.source)]_vars

C19_Witness ==
    /\ lastOp = "handleStart.resumed"
    /\ pending.initReturn = "false"
    /\ spatial.status = "error"
    /\ capture.status = "idle"
    /\ mounted

\* C20: a setPosition call made while the engine holds no panner raises nothing
\* and leaves the status, the reported position and everything else as it was.
C20_SetPositionWithoutPanner ==
    [][(lastOp' = "setPosition" /\ ~spatial.nodesRef.held)
       => UNCHANGED <<spatial, capture, contexts, streams, pending>>]_vars

C20_Witness ==
    /\ lastOp = "setPosition"
    /\ ~spatial.nodesRef.held
    /\ spatial.status = "error"

\* The last pointer event that moved the marker, relative to the pad's rectangle.
PointerPixelX == pad.pointer.x - pad.rect.left

PointerPixelY == pad.pointer.y - pad.rect.top

PointerInside ==
    /\ pad.pointer.on
    /\ PointerPixelX \in 0..pad.rect.width
    /\ PointerPixelY \in 0..pad.rect.height

AxisRange == (0 - PositionScale * Unit)..(PositionScale * Unit)

\* C21: the panner's targets always lie in [-5, 5], and every pointer event that
\* changes them writes 5 times the pad's normalized position, itself in [-1, 1].
C21_PannerTargetsScaled ==
    /\ [](spatial.nodesRef.held =>
             /\ spatial.nodesRef.panner.x \in AxisRange
             /\ spatial.nodesRef.panner.y \in AxisRange
             /\ spatial.nodesRef.panner.z \in AxisRange)
    /\ [][(/\ lastOp' \in {"pointerDown", "pointerMove"}
           /\ spatial'.nodesRef.panner # spatial.nodesRef.panner)
          => (/\ pad'.position.x \in (0 - Unit)..Unit
              /\ pad'.position.y \in (0 - Unit)..Unit
              /\ spatial'.nodesRef.panner.x = PositionScale * pad'.position.x
              /\ spatial'.nodesRef.panner.y = 0
              /\ spatial'.nodesRef.panner.z = PositionScale * (0 - pad'.position.y))]_vars

C21_Witness ==
    /\ lastOp = "pointerMove"
    /\ pad.pointer.on
    /\ PointerPixelX < 0
    /\ PointerPixelY > pad.rect.height
    /\ spatial.nodesRef.panner.x = 0 - PositionScale * Unit
    /\ spatial.nodesRef.panner.z = PositionScale * Unit

\* C26: for every pointer position on or around the pad, pixelToNormalized gives
\* x and y in [-1, 1]: on each axis the linear centre-origin, Y-up value when
\* the pointer is within the rectangle and the nearest bound when it is not;
\* the marker is where pixelToNormalized put it.
C26_PixelToNormalizedClamps ==
    /\ \A cx \in PointerXs, cy \in PointerYs :
           LET px == cx - pad.rect.left
               py == cy - pad.rect.top
               w == pad.rect.width
               h == pad.rect.height
               n == pixelToNormalized(px, py, w, h)
           IN /\ n.x \in (0 - Unit)..Unit
              /\ n.y \in (0 - Unit)..Unit
              /\ px \in 0..w => n.x = (2 * Unit * px) \div w - Unit
              /\ py \in 0..h => n.y = Unit - (2 * Unit * py) \div h
              /\ px < 0 => n.x = 0 - Unit
              /\ px > w => n.x = Unit
              /\ py < 0 => n.y = Unit
              /\ py > h => n.y = 0 - Unit
    /\ pad.pointer.on =>
           pad.position = pixelToNormalized(PointerPixelX, PointerPixelY,
                                            pad.rect.width, pad.rect.height)

C26_Witness ==
    /\ pad.pointer.on
    /\ PointerPixelX > pad.rect.width
    /\ PointerPixelY < 0
    /\ pad.position = [x |-> Unit, y |-> Unit]

C28_PercentInvertsPixel ==
    /\ normalizedToPercent([x |-> 0, y |-> 0]) = [left |-> 50, top |-> 50]
    /\ normalizedToPercent([x |-> Unit, y |-> Unit]) = [left |-> 100, top |-> 0]
    /\ \A px \in 0..pad.rect.width, py \in 0..pad.rect.height :
           normalizedToPercent(pixelToNormalized(px, py, pad.rect.width, pad.rect.height))
               = [left |-> (px * 100) \div pad.rect.width,
                  top |-> (py * 100) \div pad.rect.height]
    /\ PointerInside =>
           markerStyle = [left |-> (PointerPixelX * 100) \div pad.rect.width,
                          top |-> (PointerPixelY * 100) \div pad.rect.height]

C28_Witness ==
    /\ PointerInside
    /\ lastOp = "pointerMove"
    /\ markerStyle = [left |-> 25, top |-> 75]

\* C29: a pointer move of a drag on the enabled pad that goes left and up (or
\* stays) never raises the reported x nor lowers the reported y; at or past the
\* top left corner it reports (-1, 1) and the engine gets (-1, 0, -1).
C29_ScenarioC ==
    [][(/\ lastOp' = "pointerMove"
        /\ pad.isDragging
        /\ ~padDisabled(World)
        /\ pad.pointer.on
        /\ pad'.pointer.on
        /\ pad'.pointer.x <= pad.pointer.x
        /\ pad'.pointer.y <= pad.pointer.y)
       => (/\ pad'.position.x <= pad.position.x
           /\ pad'.position.y >= pad.position.y
           /\ (pad'.pointer.x <= pad.rect.left /\ pad'.pointer.y <= pad.rect.top) =>
                  /\ pad'.position = [x |-> 0 - Unit, y |-> Unit]
                  /\ spatial'.position = [x |-> 0 - Unit, y |-> 0, z |-> 0 - Unit])]_vars

C29_Witness ==
    /\ lastOp = "pointerMove"
    /\ pad.isDragging
    /\ ~padDisabled(World)
    /\ PointerPixelX < 0
    /\ PointerPixelY < 0
    /\ pad.position = [x |-> 0 - Unit, y |-> Unit]
    /\ spatial.position = [x |-> 0 - Unit, y |-> 0, z |-> 0 - Unit]

\* The classification the capture contract gives each way a prompt can end.
ExpectedError(outcome) ==
    CASE outcome \in {"NotAllowedError", "PermissionDeniedError"} -> "permission-denied"
      [] outcome \in {"NotFoundError", "granted-without-audio"} -> "no-audio"
      [] outcome = "granted" -> NoError
      [] OTHER -> "unknown"

\* C22: startCapture returns null exactly when the capture fails, and then the
\* status is 'error' with the one classification of the cause: 'not-supported'
\* for a false capability flag, and for a prompt 'permission-denied', 'no-audio'
\* (a granted stream without audio has its tracks stopped) or 'unknown'; a grant
\* with audio returns the stream, held and 'capturing', with no classification.
C22_CaptureFailureClassified ==
    /\ (UserCanAct /\ pending.cap = "idle" /\ ~capture.isSupported) =>
           LET w1 == startCapture(World)
           IN /\ w1.pending.capReturn = NoId
              /\ w1.pending.cap = "idle"
              /\ w1.capture.status = "error"
              /\ w1.capture.error = "not-supported"
    /\ pending.cap = "prompt" =>
           \A po \in PromptOutcomes :
               Grantable(po) =>
                   LET w1 == startCapturePrompted(World, po)
                       s == NextStream(World)
                   IN /\ w1.capture.error = ExpectedError(po)
                      /\ po = "granted" =>
                             /\ w1.pending.capReturn = s
                             /\ w1.capture.streamRef = s
                             /\ w1.capture.status = "capturing"
                             /\ w1.streams[s] = [tracks |-> "live", audio |-> TRUE]
                      /\ po # "granted" =>
                             /\ w1.pending.capReturn = NoId
                             /\ w1.capture.status = "error"
                             /\ w1.capture.error \in CaptureError
                             /\ w1.capture.streamRef = capture.streamRef
                      /\ po = "granted-without-audio" => w1.streams[s].tracks = "stopped"
    /\ (lastOp \in {"startCapture", "startCapture.prompted"} /\ pending.cap = "idle") =>
           (pending.capReturn = NoId <=> capture.status = "error")

C22_Witness ==
    /\ lastOp = "startCapture.prompted"
    /\ capture.status = "error"
    /\ capture.error = "no-audio"
    /\ pending.capReturn = NoId
    /\ \E s \in StreamIds : streams[s] = [tracks |-> "stopped", audio |-> FALSE]

\* C23: the step in which a captured track ends on its own leaves the capture
\* status 'idle', no stream held and no classification set.
C23_EndedIsNotAnError ==
    [][lastOp' = "trackEnded" =>
          /\ capture'.status = "idle"
          /\ capture'.stream = NoId
          /\ capture'.streamRef = NoId
          /\ capture'.error = NoError]_vars

C23_Witness ==
    /\ lastOp = "trackEnded"
    /\ capture.status = "idle"
    /\ \E s \in StreamIds : streams[s].tracks = "ended"

\* C24: from every capture state stopCapture leaves status 'idle', no error and
\* no stream held, and a second call right after it changes nothing and stops
\* no track.
C24_StopCaptureIdempotent ==
    LET w1 == stopCapture(World)
    IN /\ w1.capture.status = "idle"
       /\ w1.capture.error = NoError
       /\ w1.capture.stream = NoId
       /\ w1.capture.streamRef = NoId
       /\ \A s \in stopCaptureStops(World) : w1.streams[s].tracks # "live"
       /\ stopCapture(w1) = w1
       /\ stopCaptureStops(w1) = {}

C24_Witness ==
    /\ lastOp = "stopCapture"
    /\ capture.status = "idle"
    /\ \E s \in StreamIds : streams[s].tracks = "stopped" /\ streams[s].audio

\* C25: the capability flag is 'supported' until the capability check has run,
\* equals the environment's real capability once it has, and never changes
\* after that.
C25_CapabilityFlag ==
    /\ [](~env.checked => capture.isSupported)
    /\ [](env.checked => capture.isSupported = env.supported)
    /\ [][env.checked => capture'.isSupported = capture.isSupported]_vars

C25_Witness ==
    /\ env.checked
    /\ ~env.supported
    /\ ~capture.isSupported
    /\ lastOp = "startCapture"

\* C30: whenever the engine holds its nodes, the gain shown to the user is the
\* gain node's target.
C30_ReportedGainIsNodeGain ==
    (mounted /\ spatial.nodesRef.held) =>
        spatial.gain = spatial.nodesRef.gain.target

\* The panner targets that stand for a normalized 3D position.
ScaledTargets(pos) ==
    [x |-> PositionScale * pos.x, y |-> PositionScale * pos.y, z |-> PositionScale * pos.z]

PannerTargets ==
    [x |-> spatial.nodesRef.panner.x,
     y |-> spatial.nodesRef.panner.y,
     z |-> spatial.nodesRef.panner.z]

\* C31: whenever the engine is active, the panner's targets are 5 times
\* padToPosition3D of the position the pad shows, and 5 times the position the
\* engine reports.
C31_PannerFollowsPad ==
    (mounted /\ spatial.status = "active") =>
        /\ PannerTargets = ScaledTargets(padToPosition3D(pad.position.x, pad.position.y, 0))
        /\ PannerTargets = ScaledTargets(spatial.position)

\* C32: once no start sequence is in flight, every stream whose tracks are live
\* is the one connected to the engine.
C32_NoStrayCapture ==
    pending.start = "idle" =>
        \A s \in StreamIds :
            streams[s].tracks = "live" =>
                /\ spatial.nodesRef.held
                /\ spatial.nodesRef.source = s
                /\ s \in spatial.nodesRef.feeding

\* C33: the capture status is 'capturing' exactly when a stream is held, and
\* 'error' exactly when a classification, and so a message, is set.
C33_CaptureStatusMatches ==
    /\ (capture.status = "capturing") <=> (capture.stream # NoId)
    /\ (capture.status = "capturing") <=> (capture.streamRef # NoId)
    /\ (capture.status = "error") <=> (capture.error # NoError)
    /\ (capture.status = "error") <=> (errorMessage # NoMessage)

C33_Witness ==
    /\ capture.status = "error"
    /\ capture.error = "permission-denied"
    /\ \E s \in StreamIds : streams[s].tracks = "ended"

\* C34: startCapture called while a stream is held returns that stream, opens
\* no prompt, and leaves the capture status, the error and the streams as they
\* were.
C34_StartCaptureWhileHeld ==
    capture.streamRef # NoId =>
        LET w1 == startCapture(World)
        IN /\ w1.pending.capReturn = capture.streamRef
           /\ w1.pending.cap = pending.cap
           /\ pending.cap = "idle"
           /\ w1.capture = capture
           /\ w1.streams = streams

C34_Witness ==
    /\ lastOp = "startCapture"
    /\ capture.streamRef # NoId
    /\ pending.capReturn = capture.streamRef
    /\ capture.status = "capturing"

\* C35: in spatial status 'error' with no start in flight the start control is
\* enabled, and a new initialize() goes through 'initializing' and ends 'ready'
\* with nodes held when the context is created and resumed.
C35_ErrorIsNotDeadEnd ==
    (mounted /\ env.checked /\ spatial.status = "error" /\ pending.start = "idle") =>
        /\ canStart
        /\ pending.init = "idle"
        /\ ~spatial.nodesRef.held
        /\ FreshContexts(World) # {} =>
               LET w1 == initialize(World, "running", "ok")
                   w2 == initialize(World, "suspended", "ok")
                   w3 == initializeResumed(w2, "resolved", "ok")
               IN /\ w1.spatial.status = "ready"
                  /\ w1.spatial.nodesRef.held
                  /\ w1.pending.initReturn = "true"
                  /\ w2.spatial.status = "initializing"
                  /\ w3.spatial.status = "ready"
                  /\ w3.spatial.nodesRef.held
                  /\ w3.pending.initReturn = "true"

C35_Witness ==
    /\ lastOp = "handleStart.prompted"
    /\ spatial.status = "active"
    /\ spatial.nodesRef.context = 2
    /\ contexts[1] = "suspended"

\* C36: in status 'active' the chain source to panner, panner to gain and gain
\* to output is connected, fed by the attached source; in status 'ready' none of
\* the three connections exists.
C36_ChainMatchesStatus ==
    /\ spatial.status = "active" =>
           /\ spatial.nodesRef.wired = FullChain
           /\ spatial.nodesRef.feeding = {spatial.nodesRef.source}
    /\ spatial.status = "ready" =>
           /\ spatial.nodesRef.wired = {}
           /\ spatial.nodesRef.feeding = {}

\* C37: at most one context is open (running, or suspended while being opened)
\* at any time, and a step creates a context only when the engine holds none.
C37_OneContext ==
    /\ [](Cardinality(OpenContexts(World)) <= 1)
    /\ [][(\E c \in CtxIds : contexts[c] = "none" /\ contexts'[c] # "none")
          => ~spatial.nodesRef.held]_vars

====
